---- MODULE Spec2Model ----
(***************************************************************************)
(* Reminder lifecycle of the dental voice agent: the persisted             *)
(* AppointmentReminder rows, the AppointmentService operations that        *)
(* mutate them, and the webhook routes that call those operations.         *)
(* Spec is the application through its routes: a handler runs on the       *)
(* event loop as a query followed by a commit, the background task of a    *)
(* created reminder runs in a worker thread as query, make_call and        *)
(* commit, and any number of tasks may be in flight; SpecService is the    *)
(* service called directly on one reminder; SpecPolicy is the scheduling   *)
(* decision over a range of instants; SpecVoice is the TwiML of a call,    *)
(* the reminder call and the incoming call; SpecRace is one reminder       *)
(* under concurrent requests, each a read followed by a commit.            *)
(***************************************************************************)
EXTENDS Integers, Sequences, FiniteSets, TLC

\* ---- bounds of the model ----
\* rows create_appointment_reminder may insert
MaxReminders == 2
\* calls the gateway may place
MaxCalls == 2
\* last instant of the clock, in hours
MaxNow == 48
\* digits, utterances and timeouts one call may take
MaxInputs == 7

\* ---- values ----
\* a NULL column / Python None
None == <<>>
\* the n-th call SID handed out by the gateway (Twilio SIDs are unique)
CallSid(n) == <<n>>
\* the literal call SID of routes.appointment_confirm
example_call_sid == <<0>>
\* the literal digit of routes.appointment_confirm
digit_pressed == "1"

\* Enum('scheduled', 'sent', 'confirmed', 'rescheduled', 'failed')
ReminderStatus == {"scheduled", "sent", "confirmed", "rescheduled", "failed"}
\* status enum of the gateway's status webhook
CallStatuses == {"initiated", "ringing", "answered", "completed", "busy", "no-answer", "failed"}

\* timedelta(hours=24), in hours
LeadHours == 24

\* Inputs of create_appointment_reminder.  An appointment_date string
\* "2026-11-DDTHH:00:00" is written [day |-> DD, hour |-> HH].
PatientNames == {"Ann"}
PhoneNumbers == {"+15550100"}
Messages == {None}
DateStrings == {[day |-> 3, hour |-> 0], [day |-> 31, hour |-> 0], [day |-> 1, hour |-> 24]}

\* datetime.fromisoformat that checks the hour and not the day
fromisoformat_raises_on_hour(s) == ~(s.hour \in 0..23)

\* datetime.fromisoformat raises ValueError: November has 30 days and a
\* day has the hours 0..23
fromisoformat_raises(s) == ~(s.day \in 1..30 /\ s.hour \in 0..23)
\* datetime.fromisoformat, in hours from 2026-11-01T00:00:00
fromisoformat(s) == (s.day - 1) * 24 + s.hour

VARIABLES
    reminders,   \* table appointment_reminders: row id -> row
    now,         \* datetime.utcnow(), in hours from 2026-11-01T00:00:00
    client,      \* TwilioVoiceService.client is not None
    calls,       \* number of calls the gateway has placed
    last,        \* the most recent operation: arguments, outcome, log line
    twiml,       \* verbs of the TwiML document the live call has yet to run
    inputs,      \* digits and timeouts the live call has taken
    txn,         \* background tasks and requests in flight: position, loaded row
    req          \* the request the event loop is handling, between query and commit

vars == <<reminders, now, client, calls, last, twiml, inputs, txn, req>>

\* the part of the state the webhook handlers never touch
flight == <<twiml, inputs, txn>>

Ids == DOMAIN reminders

\* the event loop handles no request
Idle == [pc |-> "idle"]

\* The most recent operation: its name, the reminder id it was given or
\* found, the call SID and status it was given or returned, the status the
\* reminder had before, how it ended, and the exception it logged.
Op(op, id, sid, status, pre, result, reason) ==
    [op |-> op, id |-> id, call_sid |-> sid, status |-> status,
     pre |-> pre, result |-> result, reason |-> reason]

Init ==
    /\ reminders = <<>>
    /\ now = 0
    /\ client \in BOOLEAN
    /\ calls = 0
    /\ last = Op("init", 0, None, "", "", "", "")
    /\ twiml = <<>>
    /\ inputs = <<>>
    /\ req = Idle
    /\ txn = <<>>

\* AppointmentReminder(...) created as already sent
AppointmentReminder_sent(patient_name, phone_number, appointment_datetime, message) ==
    [patient_name |-> patient_name,
     phone_number |-> phone_number,
     appointment_date |-> appointment_datetime,
     message |-> message,
     status |-> "sent",
     call_sid |-> None]

\* AppointmentReminder(...) with the column defaults of models.py
AppointmentReminder(patient_name, phone_number, appointment_datetime, message) ==
    [patient_name |-> patient_name,
     phone_number |-> phone_number,
     appointment_date |-> appointment_datetime,
     message |-> message,
     status |-> "scheduled",
     call_sid |-> None]

\* AppointmentService.create_appointment_reminder
create_appointment_reminder(phone_number, appointment_date, patient_name, message) ==
    /\ Len(reminders) < MaxReminders
    /\ IF fromisoformat_raises(appointment_date)
       THEN \* except: db.rollback(); raise
            /\ reminders' = reminders
            /\ last' = Op("create_appointment_reminder", 0, None, "", "", "raise", "ValueError")
       ELSE /\ reminders' = Append(reminders,
                  AppointmentReminder(patient_name, phone_number,
                                      fromisoformat(appointment_date), message))
            /\ last' = Op("create_appointment_reminder", Len(reminders) + 1, None, "", "",
                          "return", "")
    /\ UNCHANGED <<now, client, calls>>

\* TwilioVoiceService.make_call: the call SID it returns, or the exception
\* it raises.  gw: client.calls.create returns ("ok") or raises ("raise":
\* the gateway refuses or times out).
make_call(gw) ==
    IF ~client THEN [sid |-> None, reason |-> "Twilio client not initialized"]
    ELSE IF gw = "raise" THEN [sid |-> None, reason |-> "calls.create raised"]
    ELSE [sid |-> CallSid(calls + 1), reason |-> ""]

\* the exception of VoiceAgent.get_appointment_reminder
GenerationError == "chat.completions.create raised"

\* The exception _make_reminder_call catches and logs, "" when there is none.
\* gen: voice_agent.get_appointment_reminder returns ("ok") or raises.
make_reminder_call_error(gen, gw) ==
    IF gen = "raise" THEN GenerationError ELSE make_call(gw).reason

\* a commit that writes the whole row back as the Session holds it
flush_whole_row(row, loaded, assigned) == assigned

\* db.commit(): the UPDATE the unit of work emits sets the columns whose
\* assigned value differs from the loaded one, on the row as it is now
flush(row, loaded, assigned) ==
    [row EXCEPT
       !.status = IF assigned.status # loaded.status THEN assigned.status ELSE @,
       !.call_sid = IF assigned.call_sid # loaded.call_sid THEN assigned.call_sid ELSE @]

\* _make_reminder_call that marks the reminder sent and forgets the call SID
make_reminder_call_drops_sid(reminder, sid, error) ==
    IF error = ""
    THEN [reminder EXCEPT !.status = "sent"]
    ELSE [reminder EXCEPT !.status = "failed"]

\* _make_reminder_call whose except branch forgets to mark the reminder failed
make_reminder_call_swallows(reminder, sid, error) ==
    IF error = ""
    THEN [reminder EXCEPT !.call_sid = sid, !.status = "sent"]
    ELSE reminder

\* AppointmentService._make_reminder_call: what it assigns to the reminder
\* it was given, after make_call returned sid (try block) or after the
\* exception error was caught (except block)
make_reminder_call(reminder, sid, error) ==
    IF error = ""
    THEN [reminder EXCEPT !.call_sid = sid, !.status = "sent"]
    ELSE [reminder EXCEPT !.status = "failed"]

\* call_time with twice the lead
call_time_two_days(reminder) == reminder.appointment_date - 2 * LeadHours

\* call_time without the lead: the appointment instant itself
call_time_at_appointment(reminder) == reminder.appointment_date

\* call_time = reminder.appointment_date - timedelta(hours=24)
call_time(reminder) == reminder.appointment_date - LeadHours

\* The background task app.schedule_reminder adds for the row it created:
\* where it is, the row its Session holds (none before the query and after
\* the commit, which expires it), and what make_call gave it.
Task == [pc |-> "queued", loaded |-> None, sid |-> None, error |-> ""]

\* AppointmentService.schedule_reminder_call: the query and the call_time
\* test.  It runs in a worker thread; when the call is due it goes on to
\* _make_reminder_call with the row it loaded (nothing is logged yet),
\* otherwise it logs the instant and returns.
schedule_reminder_call(reminder_id) ==
    /\ IF reminder_id \notin Ids
       THEN /\ txn' = txn
            /\ last' = Op("schedule_reminder_call", reminder_id, None, "", "", "not found", "")
       ELSE LET reminder == reminders[reminder_id]
            IN IF call_time(reminder) < now
               THEN /\ txn' = [txn EXCEPT ![reminder_id].pc = "loaded",
                                          ![reminder_id].loaded = reminder]
                    /\ last' = last
               ELSE /\ txn' = [txn EXCEPT ![reminder_id].pc = "deferred"]
                    /\ last' = Op("schedule_reminder_call", reminder_id, None, "",
                                  reminder.status, "would schedule", "")
    /\ UNCHANGED <<reminders, now, client, calls>>

\* _make_reminder_call, first half: get_appointment_reminder and make_call,
\* two requests over the network.  Nothing is written; the call is placed
\* when make_call returns a SID.
place_reminder_call(reminder_id, gen, gw) ==
    /\ txn[reminder_id].pc = "loaded"
    /\ LET error == make_reminder_call_error(gen, gw)
       IN /\ error = "" => calls < MaxCalls
          /\ calls' = IF error = "" THEN calls + 1 ELSE calls
          /\ txn' = [txn EXCEPT
                       ![reminder_id].pc = "placed",
                       ![reminder_id].sid = IF error = "" THEN make_call(gw).sid ELSE None,
                       ![reminder_id].error = error]
    /\ UNCHANGED <<reminders, now, client, last>>

\* _make_reminder_call, second half: the assignments and db.commit() of
\* the try block or of the except block
commit_reminder_call(reminder_id) ==
    /\ txn[reminder_id].pc = "placed"
    /\ LET task == txn[reminder_id]
       IN /\ reminders' = [reminders EXCEPT ![reminder_id] =
                 flush(@, task.loaded, make_reminder_call(task.loaded, task.sid, task.error))]
          /\ last' = Op("_make_reminder_call", reminder_id, task.sid, "",
                        task.loaded.status,
                        IF task.error = "" THEN "placed" ELSE "except", task.error)
    /\ txn' = [txn EXCEPT ![reminder_id] =
                 [pc |-> "done", loaded |-> None, sid |-> None, error |-> ""]]
    /\ UNCHANGED <<now, client, calls>>

\* app.schedule_reminder: POST /schedule-reminder creates the row and adds
\* schedule_reminder_call for its id as a background task; the exception
\* of the create becomes a 500 response and adds no task
schedule_reminder(phone_number, appointment_date, patient_name, message) ==
    /\ req.pc = "idle"
    /\ create_appointment_reminder(phone_number, appointment_date, patient_name, message)
    /\ txn' = IF fromisoformat_raises(appointment_date) THEN txn
              ELSE Append(txn, Task)
    /\ UNCHANGED <<twiml, inputs, req>>

\* db.query(AppointmentReminder).filter(AppointmentReminder.call_sid == sid):
\* the matching rows (SQLAlchemy renders "== None" as IS NULL, so None
\* matches the rows whose call_sid is NULL)
by_call_sid(sid) == {i \in Ids : reminders[i].call_sid = sid}

\* handle_call_status_callback that confirms a call completed while Sent
status_after_callback_confirms(old, status) ==
    IF status = "completed" THEN (IF old = "sent" THEN "confirmed" ELSE "sent")
    ELSE IF status = "failed" \/ status = "busy" \/ status = "no-answer" THEN "failed"
    ELSE old

\* handle_call_status_callback that starts over when a call is initiated
status_after_callback_resets(old, status) ==
    IF status = "completed" THEN "sent"
    ELSE IF status = "failed" \/ status = "busy" \/ status = "no-answer" THEN "failed"
    ELSE IF status = "initiated" THEN "scheduled"
    ELSE old

\* the status handle_call_status_callback leaves on the row it found
status_after_callback(old, status) ==
    IF status = "completed" THEN "sent"
    ELSE IF status = "failed" \/ status = "busy" \/ status = "no-answer" THEN "failed"
    ELSE old

\* A request between its query and its commit: the operation and its
\* arguments (for the log), the row the query returned as the Session
\* holds it, and the status the handler assigns to it.
Found(op, id, sid, carried, pre, result, row, loaded, assign) ==
    [pc |-> "found", op |-> op, id |-> id, call_sid |-> sid,
     status |-> IF op = "call_status_callback" THEN "" ELSE carried,
     pre |-> pre, result |-> result, row |-> row, loaded |-> loaded,
     assign |-> assign]

\* the object a query of the request's Session returns for row i: the one
\* the Session already holds (identity map, not refreshed), else the row
\* as it is now.  held: the rows the request has loaded, by id.
identity_map(held, i) == IF i \in DOMAIN held THEN held[i] ELSE reminders[i]

\* AppointmentService.handle_call_status_callback up to db.commit(): the
\* query by call_sid and the assignment (op, id, carried, pre, found and
\* missing describe the caller).  .first() has no ORDER BY, so any
\* matching row may be the one it returns.  The filter runs on the rows as
\* they are now; the object returned is the Session's (held: the rows the
\* caller has loaded in this Session).
reconcile(op, id, carried, pre, found, missing, held, call_sid, status) ==
    /\ IF by_call_sid(call_sid) = {}
       THEN /\ req' = Idle
            /\ last' = Op(op, id, call_sid, carried, pre, missing, "")
       ELSE \E i \in by_call_sid(call_sid) :
            LET reminder == identity_map(held, i)
            IN /\ req' = Found(op, IF id = 0 THEN i ELSE id, call_sid, carried,
                               IF id = 0 THEN reminder.status ELSE pre, found, i,
                               reminder,
                               status_after_callback(reminder.status, status))
               /\ last' = last
    /\ UNCHANGED <<reminders, now, client, calls>>

\* AppointmentService.handle_call_status_callback, the query
handle_call_status_callback(call_sid, status) ==
    /\ req.pc = "idle"
    /\ reconcile("handle_call_status_callback", 0, status, "", "updated", "not found",
                 <<>>, call_sid, status)

\* routes.call_status_callback: POST /call-status-callback/{reminder_id},
\* the query by id.  The route has no parameter for the request's
\* CallStatus and never reads it: carried is what the request carries,
\* written to the history when the request ends.
call_status_callback(reminder_id, carried) ==
    /\ req.pc = "idle"
    /\ IF reminder_id \notin Ids
       THEN /\ last' = Op("call_status_callback", reminder_id, None, carried, "", "404", "")
            /\ req' = Idle
       ELSE /\ req' = [pc |-> "routed", op |-> "call_status_callback", id |-> reminder_id,
                       loaded |-> reminders[reminder_id]]
            /\ last' = last
    /\ UNCHANGED <<reminders, now, client, calls>>

\* routes.call_status_callback goes on: handle_call_status_callback with
\* the call SID of the row it loaded and the literal "completed"; the
\* route answers 200 whether or not the handler finds a row
call_status_callback_reconcile(carried) ==
    /\ req.pc = "routed"
    /\ reconcile("call_status_callback", req.id, carried, req.loaded.status,
                 "200", "200", [i \in {req.id} |-> req.loaded],
                 req.loaded.call_sid, "completed")

\* the row after AppointmentService.handle_appointment_confirmation
confirmation_status(confirmed) == IF confirmed THEN "confirmed" ELSE "rescheduled"

\* AppointmentService.handle_appointment_confirmation, the query
handle_appointment_confirmation(reminder_id, confirmed) ==
    /\ req.pc = "idle"
    /\ IF reminder_id \notin Ids
       THEN /\ req' = Idle
            /\ last' = Op("handle_appointment_confirmation", reminder_id, None,
                          confirmation_status(confirmed), "", "not found", "")
       ELSE /\ req' = Found("handle_appointment_confirmation", reminder_id, None,
                            confirmation_status(confirmed),
                            reminders[reminder_id].status, "updated", reminder_id,
                            reminders[reminder_id],
                            confirmation_status(confirmed))
            /\ last' = last
    /\ UNCHANGED <<reminders, now, client, calls>>

\* appointment_confirm that reads Digits and CallSid from the request
appointment_confirm_reads_request(Digits, RequestCallSid) ==
    /\ req.pc = "idle"
    /\ IF by_call_sid(RequestCallSid) = {}
       THEN /\ req' = Idle
            /\ last' = Op("appointment_confirm", 0, example_call_sid, "", "", "404", "")
       ELSE \E i \in by_call_sid(RequestCallSid) :
            /\ req' = Found("appointment_confirm", i, example_call_sid,
                            confirmation_status(Digits = "1"),
                            reminders[i].status, "200", i, reminders[i],
                            confirmation_status(Digits = "1"))
            /\ last' = last
    /\ UNCHANGED <<reminders, now, client, calls>>

\* routes.appointment_confirm: POST /appointment-confirm, the query.  The
\* request's Digits and CallSid are not read: the digit and the call SID
\* are literals.
appointment_confirm(Digits, RequestCallSid) ==
    /\ req.pc = "idle"
    /\ IF by_call_sid(example_call_sid) = {}
       THEN /\ req' = Idle
            /\ last' = Op("appointment_confirm", 0, example_call_sid, "", "", "404", "")
       ELSE \E i \in by_call_sid(example_call_sid) :
            /\ req' = Found("appointment_confirm", i, example_call_sid,
                            confirmation_status(digit_pressed = "1"),
                            reminders[i].status, "200", i, reminders[i],
                            confirmation_status(digit_pressed = "1"))
            /\ last' = last
    /\ UNCHANGED <<reminders, now, client, calls>>

\* db.commit() of handle_call_status_callback and of
\* handle_appointment_confirmation, and the log line after it (carried:
\* the CallStatus of a request to routes.call_status_callback)
commit_request(carried) ==
    /\ req.pc = "found"
    /\ reminders' = [reminders EXCEPT ![req.row] =
           flush(@, req.loaded, [req.loaded EXCEPT !.status = req.assign])]
    /\ last' = Op(req.op, req.id, req.call_sid,
                  IF req.op = "call_status_callback" THEN carried ELSE req.status,
                  req.pre, req.result, "")
    /\ req' = Idle
    /\ UNCHANGED <<now, client, calls>>

\* datetime.utcnow() moves on
Tick ==
    /\ now + LeadHours <= MaxNow
    /\ now' = now + LeadHours
    /\ last' = Op("tick", 0, None, "", "", "", "")
    /\ UNCHANGED <<reminders, client, calls, req>>
    /\ UNCHANGED flight

\* call SIDs a webhook may name
CallSids == {CallSid(n) : n \in 1..MaxCalls}

Create ==
    \E p \in PhoneNumbers, d \in DateStrings, n \in PatientNames, m \in Messages :
        schedule_reminder(p, d, n, m)

\* the background task of a created row starts in a worker thread
Schedule ==
    /\ \E id \in DOMAIN txn : txn[id].pc = "queued" /\ schedule_reminder_call(id)
    /\ UNCHANGED <<twiml, inputs, req>>

PlaceCall ==
    /\ \E id \in DOMAIN txn, gen \in {"ok", "raise"}, gw \in {"ok", "raise"} :
          place_reminder_call(id, gen, gw)
    /\ UNCHANGED <<twiml, inputs, req>>

CommitCall ==
    /\ \E id \in DOMAIN txn : commit_reminder_call(id)
    /\ UNCHANGED <<twiml, inputs, req>>

StatusEvent ==
    /\ \E sid \in {None} \cup CallSids, s \in CallStatuses :
          handle_call_status_callback(sid, s)
    /\ UNCHANGED flight

StatusWebhook ==
    /\ \E id \in 1..MaxReminders, s \in CallStatuses : call_status_callback(id, s)
    /\ UNCHANGED flight

StatusWebhookReconcile ==
    /\ \E s \in CallStatuses : call_status_callback_reconcile(s)
    /\ UNCHANGED flight

CommitRequest ==
    /\ \E s \in CallStatuses : commit_request(s)
    /\ UNCHANGED flight

Confirmation ==
    /\ \E id \in 1..MaxReminders, c \in BOOLEAN : handle_appointment_confirmation(id, c)
    /\ UNCHANGED flight

\* digits a callee may press
Digits == {"1", "2", "9"}

ConfirmWebhook ==
    /\ \E d \in Digits, sid \in CallSids : appointment_confirm(d, sid)
    /\ UNCHANGED flight

\* the application: its routes, the background tasks they add, the clock
Next ==
    \/ Create
    \/ Schedule
    \/ PlaceCall
    \/ CommitCall
    \/ StatusWebhook
    \/ StatusWebhookReconcile
    \/ ConfirmWebhook
    \/ CommitRequest
    \/ Tick

Spec == Init /\ [][Next]_vars

\* ---- the scheduling decision over a range of instants ----
\* appointment_date strings of the rows the decision is taken on
PolicyDateStrings == {[day |-> d, hour |-> h] : d \in 1..4, h \in {0, 2, 23}}

\* one reminder as create_appointment_reminder left it, any time later
InitPolicy ==
    /\ \E p \in PhoneNumbers, d \in PolicyDateStrings, n \in PatientNames, m \in Messages :
          reminders = <<AppointmentReminder(n, p, fromisoformat(d), m)>>
    /\ txn = <<Task>>
    /\ now \in 0..MaxNow
    /\ client \in BOOLEAN
    /\ calls = 0
    /\ last = Op("create_appointment_reminder", 1, None, "", "", "return", "")
    /\ twiml = <<>>
    /\ inputs = <<>>
    /\ req = Idle

\* schedule_reminder_call called for an id no reminder has
ScheduleUnknown ==
    /\ \E id \in (1..MaxReminders) \ Ids : schedule_reminder_call(id)
    /\ UNCHANGED <<twiml, inputs, req>>

NextPolicy ==
    \/ Schedule
    \/ ScheduleUnknown
    \/ PlaceCall
    \/ CommitCall

SpecPolicy == InitPolicy /\ [][NextPolicy]_vars

\* ==== the service called directly ====
\* AppointmentService.handle_call_status_callback and
\* handle_appointment_confirmation called with every status and outcome,
\* for one created reminder whose background task runs beside them.
InitService ==
    /\ \E p \in PhoneNumbers, n \in PatientNames, m \in Messages :
          reminders = <<AppointmentReminder(n, p, 2 * LeadHours, m)>>
    /\ txn = <<Task>>
    /\ now = MaxNow
    /\ client \in BOOLEAN
    /\ calls = 0
    /\ last = Op("create_appointment_reminder", 1, None, "", "", "return", "")
    /\ twiml = <<>>
    /\ inputs = <<>>
    /\ req = Idle

NextService ==
    \/ Schedule
    \/ PlaceCall
    \/ CommitCall
    \/ StatusEvent
    \/ Confirmation
    \/ CommitRequest

SpecService == InitService /\ [][NextService]_vars

\* ---- POST /schedule-reminder with any form values ----
\* a phone_number form value that is no phone number
BadPhone == "not-a-number"
PhoneInputs == PhoneNumbers \cup {BadPhone}
DateInputs == DateStrings \cup PolicyDateStrings

CreateAny ==
    \E p \in PhoneInputs, d \in DateInputs, n \in PatientNames, m \in Messages :
        schedule_reminder(p, d, n, m)

NextIntake == CreateAny

SpecIntake == Init /\ [][NextIntake]_vars

\* ---- the confirmation dialog of one reminder call ----
\* TwiML verbs
Say(text) == [verb |-> "Say", text |-> text]
\* Gather(num_digits=1, action='/appointment-confirm') with its nested Say
Gather(text) == [verb |-> "Gather", text |-> text]
Hangup == [verb |-> "Hangup", text |-> ""]

\* the nested Say of every Gather of the reminder call
ConfirmPrompt == "Press 1 to confirm your appointment, or press 2 to speak with our staff."

\* TwilioVoiceService.generate_appointment_reminder_twiml
generate_appointment_reminder_twiml(reminder_text) ==
    << Say(reminder_text),
       Gather(ConfirmPrompt),
       Say("I didn't receive your input. Let me repeat."),
       Gather(ConfirmPrompt),
       Say("Thank you for your time. If you need to make any changes to your appointment, please call our office during business hours. Goodbye!"),
       Hangup >>

\* the verb the call is running
Running(verb) == twiml # <<>> /\ Head(twiml).verb = verb

\* the gateway plays a Say and moves on
TwilioSay ==
    /\ Running("Say")
    /\ twiml' = Tail(twiml)
    /\ UNCHANGED <<req, reminders, now, client, calls, last, inputs, txn>>

\* the gateway ends the call
TwilioHangup ==
    /\ Running("Hangup")
    /\ twiml' = <<>>
    /\ UNCHANGED <<req, reminders, now, client, calls, last, inputs, txn>>

\* the callee presses a digit during a Gather: the gateway posts it to the
\* Gather's action, POST /appointment-confirm, which answers 404 (or, for a
\* row found, JSON): no document comes back and the call ends
GatherDigit ==
    /\ Running("Gather")
    /\ Len(inputs) < MaxInputs
    /\ \E d \in Digits :
          /\ appointment_confirm(d, CallSid(calls))
          /\ inputs' = Append(inputs, d)
    /\ twiml' = <<>>
    /\ UNCHANGED txn

\* the Gather times out: the gateway runs the next verb of the document
GatherTimeout ==
    /\ Running("Gather")
    /\ Len(inputs) < MaxInputs
    /\ twiml' = Tail(twiml)
    /\ inputs' = Append(inputs, "timeout")
    /\ UNCHANGED <<req, reminders, now, client, calls, last, txn>>

\* ---- the TwiML webhooks of a call ----
\* Gather(input='speech', action='/voice-webhook') with its nested Say
SpeechGather(text) == [verb |-> "GatherSpeech", text |-> text]

Greeting == "Thank you for calling My Dentist. I'm the automated assistant. How can I help you today?"

\* the document of handle_incoming_call's except branch
ErrorTwiml ==
    << Say("I'm sorry, there was an error processing your request. Please try again later."),
       Hangup >>

\* TwilioVoiceService.handle_incoming_call.  gen: process_voice_input
\* returns the reply ("ok") or raises.
handle_incoming_call(request_data, gen) ==
    IF "SpeechResult" \in DOMAIN request_data
    THEN IF gen = "raise"
         THEN ErrorTwiml
         ELSE << Say("agent_response"),
                 SpeechGather("Is there anything else I can help you with?"),
                 Say("Thank you for calling My Dentist. Goodbye!"),
                 Hangup >>
    ELSE << SpeechGather(Greeting),
            Say("I didn't hear anything. Thank you for calling My Dentist. I'm the automated assistant. How can I help you today?"),
            SpeechGather(""),
            Say("I didn't receive any input. Please call back when you're ready. Goodbye!"),
            Hangup >>

\* routes.get_appointment_reminder_twiml: the status code and the body.
\* gen: voice_agent.get_appointment_reminder returns ("ok") or raises.
get_appointment_reminder_twiml(reminder_id, gen) ==
    IF reminder_id \notin Ids
    THEN [status_code |-> "404", body |-> <<>>,
          detail |-> "Reminder with ID " \o ToString(reminder_id) \o " not found"]
    ELSE IF gen = "raise"
    THEN [status_code |-> "500", body |-> <<>>, detail |-> "Error generating TwiML"]
    ELSE [status_code |-> "200",
          body |-> generate_appointment_reminder_twiml("reminder_text"),
          detail |-> ""]

\* one Sent reminder, no call in progress
InitVoice ==
    /\ \E p \in PhoneNumbers, n \in PatientNames, m \in Messages :
          reminders = <<[AppointmentReminder(n, p, LeadHours, m) EXCEPT
                            !.status = "sent", !.call_sid = CallSid(1)]>>
    /\ now = LeadHours
    /\ client = TRUE
    /\ calls = 1
    /\ last = Op("init", 0, None, "", "", "", "")
    /\ twiml = <<>>
    /\ inputs = <<>>
    /\ req = Idle
    /\ txn = <<>>

\* app.voice_webhook for a call that comes in: POST /voice-webhook
\* without SpeechResult
IncomingCall ==
    /\ last.op = "init"
    /\ twiml' = handle_incoming_call([CallSid |-> CallSid(calls + 1)], "ok")
    /\ last' = Op("voice_webhook", 0, CallSid(calls + 1), "", "", "200", "")
    /\ UNCHANGED <<req, reminders, now, client, calls, inputs, txn>>

\* the gateway fetches the document of a reminder call:
\* GET /appointment-reminder-twiml/{reminder_id}
ReminderTwiml ==
    /\ last.op = "init"
    /\ \E id \in 1..MaxReminders, gen \in {"ok", "raise"} :
          LET response == get_appointment_reminder_twiml(id, gen)
          IN /\ twiml' = response.body
             /\ last' = Op("get_appointment_reminder_twiml", id, None, "", "",
                           response.status_code,
                           IF gen = "raise" /\ id \in Ids THEN GenerationError ELSE "")
    /\ UNCHANGED <<req, reminders, now, client, calls, inputs, txn>>

\* the caller speaks during a Gather: app.voice_webhook with SpeechResult
SpeechInput ==
    /\ Running("GatherSpeech")
    /\ Len(inputs) < MaxInputs
    /\ \E gen \in {"ok", "raise"} :
          /\ twiml' = handle_incoming_call(
                          [CallSid |-> last.call_sid, SpeechResult |-> "utterance"], gen)
          /\ last' = Op("voice_webhook", 0, last.call_sid, "", "", "200",
                        IF gen = "raise" THEN GenerationError ELSE "")
    /\ inputs' = Append(inputs, "speech")
    /\ UNCHANGED <<req, reminders, now, client, calls, txn>>

\* the speech Gather times out: the gateway runs the next verb
SpeechTimeout ==
    /\ Running("GatherSpeech")
    /\ Len(inputs) < MaxInputs
    /\ twiml' = Tail(twiml)
    /\ inputs' = Append(inputs, "timeout")
    /\ UNCHANGED <<req, reminders, now, client, calls, last, txn>>

NextVoice ==
    \/ IncomingCall
    \/ ReminderTwiml
    \/ SpeechInput
    \/ SpeechTimeout
    \/ TwilioSay
    \/ TwilioHangup
    \/ GatherDigit
    \/ GatherTimeout

SpecVoice == InitVoice /\ [][NextVoice]_vars

\* ---- one reminder under concurrent requests ----
\* Each request has its own Session: it loads the row with a query, works
\* on the loaded copy, and db.commit() flushes the columns it assigned.

\* call SIDs the gateway has handed out
Issued == {CallSid(n) : n \in 1..calls}

\* the row before the requests: as create_appointment_reminder left it
StartRows ==
    {AppointmentReminder(n, p, 2 * LeadHours, m) :
        n \in PatientNames, p \in PhoneNumbers, m \in Messages}

\* three requests for reminder 1: the background task POST
\* /schedule-reminder added for it, a status event and a confirmation
\* outcome
InitRace ==
    /\ \E start \in StartRows, gen \in {"ok", "raise"}, gw \in {"ok", "raise"},
          sid \in CallSids, s \in CallStatuses, c \in BOOLEAN :
          /\ reminders = <<start>>
          /\ calls = 0
          /\ txn = [start |-> start,
                    attempt |-> [pc |-> "ready", gen |-> gen, gw |-> gw,
                                 loaded |-> None, sid |-> None, error |-> ""],
                    status |-> [pc |-> "ready", call_sid |-> sid, status |-> s,
                                row |-> 0, loaded |-> None],
                    confirm |-> [pc |-> "ready", reminder_id |-> 1, confirmed |-> c,
                                 loaded |-> None]]
    /\ now = MaxNow
    /\ client = TRUE
    /\ last = Op("init", 0, None, "", "", "", "")
    /\ twiml = <<>>
    /\ inputs = <<>>
    /\ req = Idle

\* schedule_reminder_call: the query by id and the call_time test
AttemptRead ==
    /\ txn.attempt.pc = "ready"
    /\ txn' = [txn EXCEPT
                 !.attempt.loaded = reminders[1],
                 !.attempt.pc = IF call_time(reminders[1]) < now THEN "loaded" ELSE "done"]
    /\ UNCHANGED <<req, reminders, now, client, calls, last, twiml, inputs>>

\* _make_reminder_call up to the return of make_call, or to the exception
AttemptPlace ==
    /\ txn.attempt.pc = "loaded"
    /\ LET error == make_reminder_call_error(txn.attempt.gen, txn.attempt.gw)
       IN /\ error = "" => calls < MaxCalls
          /\ calls' = IF error = "" THEN calls + 1 ELSE calls
          /\ txn' = [txn EXCEPT
                       !.attempt.pc = "placed",
                       !.attempt.error = error,
                       !.attempt.sid = IF error = "" THEN make_call(txn.attempt.gw).sid
                                       ELSE None]
    /\ UNCHANGED <<req, reminders, now, client, last, twiml, inputs>>

\* _make_reminder_call: the assignments and the commit, of the try block
\* or of the except block
AttemptCommit ==
    /\ txn.attempt.pc = "placed"
    /\ LET loaded == txn.attempt.loaded
           assigned == make_reminder_call(loaded, txn.attempt.sid, txn.attempt.error)
       IN reminders' = [reminders EXCEPT ![1] = flush(@, loaded, assigned)]
    /\ txn' = [txn EXCEPT !.attempt.pc = "done"]
    /\ UNCHANGED <<req, now, client, calls, last, twiml, inputs>>

\* the process stops between the return of make_call and the commit: the
\* Session is gone and nothing of the attempt is written
AttemptCrash ==
    /\ txn.attempt.pc = "placed"
    /\ txn.attempt.error = ""
    /\ txn' = [txn EXCEPT !.attempt.pc = "crashed"]
    /\ UNCHANGED <<req, reminders, now, client, calls, last, twiml, inputs>>

\* handle_call_status_callback: the query by call_sid.  The gateway sends
\* events only for calls it has placed.
StatusRead ==
    /\ txn.status.pc = "ready"
    /\ txn.status.call_sid \in Issued
    /\ IF by_call_sid(txn.status.call_sid) = {}
       THEN txn' = [txn EXCEPT !.status.pc = "done"]
       ELSE \E i \in by_call_sid(txn.status.call_sid) :
              txn' = [txn EXCEPT !.status.pc = "loaded",
                                 !.status.row = i,
                                 !.status.loaded = reminders[i]]
    /\ UNCHANGED <<req, reminders, now, client, calls, last, twiml, inputs>>

\* handle_call_status_callback: the assignment and the commit
StatusCommit ==
    /\ txn.status.pc = "loaded"
    /\ LET loaded == txn.status.loaded
           assigned == [loaded EXCEPT
                          !.status = status_after_callback(@, txn.status.status)]
       IN reminders' = [reminders EXCEPT ![txn.status.row] = flush(@, loaded, assigned)]
    /\ txn' = [txn EXCEPT !.status.pc = "done"]
    /\ UNCHANGED <<req, now, client, calls, last, twiml, inputs>>

\* handle_appointment_confirmation: the query by id
ConfirmRead ==
    /\ txn.confirm.pc = "ready"
    /\ txn' = [txn EXCEPT !.confirm.pc = "loaded",
                          !.confirm.loaded = reminders[txn.confirm.reminder_id]]
    /\ UNCHANGED <<req, reminders, now, client, calls, last, twiml, inputs>>

\* handle_appointment_confirmation: the assignment and the commit
ConfirmCommit ==
    /\ txn.confirm.pc = "loaded"
    /\ LET loaded == txn.confirm.loaded
           assigned == [loaded EXCEPT
                          !.status = confirmation_status(txn.confirm.confirmed)]
       IN reminders' = [reminders EXCEPT
                          ![txn.confirm.reminder_id] = flush(@, loaded, assigned)]
    /\ txn' = [txn EXCEPT !.confirm.pc = "done"]
    /\ UNCHANGED <<req, now, client, calls, last, twiml, inputs>>

NextRace ==
    \/ AttemptRead
    \/ AttemptPlace
    \/ AttemptCommit
    \/ AttemptCrash
    \/ StatusRead
    \/ StatusCommit
    \/ ConfirmRead
    \/ ConfirmCommit

SpecRace == InitRace /\ [][NextRace]_vars

\* ==== the reminder lifecycle of the specification (section 4.2) ====

\* the edges of the status graph
StatusGraph ==
    {<<"scheduled", "sent">>, <<"scheduled", "failed">>, <<"sent", "confirmed">>,
     <<"sent", "rescheduled">>, <<"sent", "failed">>}
\* statuses no transition leaves
TerminalStatus == {"confirmed", "rescheduled", "failed"}
\* statuses of a reminder whose call has been attempted
AttemptedStatus == {"sent", "confirmed", "rescheduled", "failed"}
\* delivery failures of the status webhook
DeliveryFailures == {"busy", "no-answer", "failed"}

\* the last operation was handle_call_status_callback, it found a reminder
Reconciled == last.op = "handle_call_status_callback" /\ last.result = "updated"
\* the last operation was _make_reminder_call on a Scheduled reminder
Attempted == last.op = "_make_reminder_call" /\ last.pre = "scheduled"
\* ... and the call could not be placed: make_call raised
PlacementFailed == Attempted /\ last.result = "except" /\ last.reason # GenerationError

\* C1: every change of a reminder's status is an edge of the status graph:
\* Scheduled->Sent, Scheduled->Failed, Sent->Confirmed, Sent->Rescheduled,
\* Sent->Failed; nothing leaves Confirmed, Rescheduled or Failed.
C1_StatusChangesFollowGraph ==
    [][\A i \in Ids :
         reminders'[i].status # reminders[i].status
           => <<reminders[i].status, reminders'[i].status>> \in StatusGraph]_vars

\* C2: in every state every reminder carries a call SID if and only if its
\* status is Sent, Confirmed, Rescheduled or Failed.
C2_ReferenceIffAttempted ==
    \A i \in Ids : reminders[i].call_sid # None
                      <=> reminders[i].status \in AttemptedStatus

\* one direction of C2: a reminder that carries a call SID is Sent,
\* Confirmed, Rescheduled or Failed
ReferenceImpliesAttempted ==
    \A i \in Ids : reminders[i].call_sid # None
                      => reminders[i].status \in AttemptedStatus

\* the other direction of C2 for the statuses a placed call leads to: a
\* reminder that is Sent, Confirmed or Rescheduled carries a call SID
PlacedImpliesReference ==
    \A i \in Ids : reminders[i].status \in {"sent", "confirmed", "rescheduled"}
                      => reminders[i].call_sid # None

\* C3: a reminder in Sent that receives "failed" and then "completed" for
\* the same call SID stays Failed.
C3_FailedThenCompletedStaysFailed ==
    [][(/\ Reconciled /\ last.status = "failed" /\ last.pre = "sent"
        /\ last.call_sid # None
        /\ last'.op = "handle_call_status_callback"
        /\ last'.status = "completed"
        /\ last'.call_sid = last.call_sid)
       => reminders'[last.id].status = "failed"]_vars

\* C4: "completed" leaves a reminder that was Confirmed or Rescheduled
\* during the call (by the confirmation outcome recorded just before) in
\* that status, and changes no status when no outcome was recorded.
C4_CompletedKeepsOutcome ==
    [][(/\ last.op = "handle_appointment_confirmation" /\ last.result = "updated"
        /\ last.pre = "sent"
        /\ reminders[last.id].call_sid # None
        /\ last'.op = "handle_call_status_callback"
        /\ last'.status = "completed"
        /\ last'.call_sid = reminders[last.id].call_sid)
       => reminders'[last.id].status = reminders[last.id].status]_vars

\* C5: reconciling "completed" for a call SID twice in a row leaves every
\* reminder as the first reconciliation left it.
C5_CompletedTwiceIsOnce ==
    [][(/\ last.op = "handle_call_status_callback" /\ last.status = "completed"
        /\ last.call_sid # None
        /\ last'.op = "handle_call_status_callback" /\ last'.status = "completed"
        /\ last'.call_sid = last.call_sid)
       => reminders' = reminders]_vars

\* C5 witness: "completed" was reconciled for the call of a reminder that is
\* Sent, as the reconciliation before leaves it, and found it
C5_Witness ==
    /\ Reconciled /\ last.status = "completed" /\ last.call_sid # None
    /\ last.pre = "sent"
    /\ reminders[last.id].status = "sent"

\* C6: reconciling completed, busy, no-answer or failed for a reminder that
\* is Confirmed, Rescheduled or Failed leaves its status unchanged.
C6_TerminalAbsorbsEvents ==
    (Reconciled /\ last.call_sid # None /\ last.pre \in TerminalStatus
       /\ last.status \in {"completed"} \cup DeliveryFailures)
      => reminders[last.id].status = last.pre

\* C7: create_appointment_reminder with a date that parses adds exactly one
\* row, Scheduled and without a call SID, leaves the other rows alone and
\* returns the id of the new row.
C7_CreateAddsScheduled ==
    [][\A p \in PhoneNumbers, d \in DateStrings, n \in PatientNames, m \in Messages :
         (~fromisoformat_raises(d) /\ create_appointment_reminder(p, d, n, m))
           => /\ Len(reminders') = Len(reminders) + 1
              /\ SubSeq(reminders', 1, Len(reminders)) = reminders
              /\ last'.result = "return"
              /\ last'.id = Len(reminders')
              /\ reminders'[last'.id].status = "scheduled"
              /\ reminders'[last'.id].call_sid = None
              /\ reminders'[last'.id].phone_number = p
              /\ reminders'[last'.id].appointment_date = fromisoformat(d)]_vars

\* C7 witness: a second reminder has been created
C7_Witness ==
    /\ last.op = "create_appointment_reminder" /\ last.result = "return"
    /\ last.id = 2
    /\ reminders[2].status = "scheduled"

\* C8: _make_reminder_call on a Scheduled reminder for which the gateway
\* returned a call SID leaves the reminder Sent with exactly that SID.
C8_PlacedCallIsSent ==
    (Attempted /\ last.result = "placed")
      => /\ last.call_sid \in Issued
         /\ reminders[last.id].status = "sent"
         /\ reminders[last.id].call_sid = last.call_sid

\* C8 witness: the second call of the gateway was placed for a Scheduled reminder
C8_Witness == Attempted /\ last.result = "placed" /\ last.call_sid = CallSid(2)

\* the text columns of a reminder row
ReminderText(reminder) ==
    {reminder.patient_name, reminder.phone_number, reminder.status}
      \cup (IF reminder.message = None THEN {} ELSE {reminder.message})

\* C9 as stated: _make_reminder_call on a Scheduled reminder whose call
\* cannot be placed leaves it Failed with the failure reason recorded on
\* the reminder.
C9_PlacementFailureRecorded ==
    PlacementFailed
      => /\ reminders[last.id].status = "failed"
         /\ last.reason \in ReminderText(reminders[last.id])

\* C9 as amended: _make_reminder_call on a Scheduled reminder whose call
\* cannot be placed leaves it Failed (not Scheduled, not Sent); the reason
\* is logged and the row keeps no trace of it beyond the status.
C9_PlacementFailureFails ==
    PlacementFailed
      => /\ reminders[last.id].status = "failed"
         /\ last.reason \in {"Twilio client not initialized", "calls.create raised"}
         /\ last.reason \notin ReminderText(reminders[last.id])
         /\ reminders[last.id].call_sid = None

\* C9 witness: calls.create raised for a Scheduled reminder
C9_Witness == PlacementFailed /\ last.reason = "calls.create raised"

\* C10: a status webhook that carries busy, no-answer or failed for a
\* reminder in Sent leaves the reminder Failed.
C10_WebhookFailureFails ==
    (/\ last.op = "call_status_callback" /\ last.result = "200"
     /\ last.status \in DeliveryFailures
     /\ last.pre = "sent"
     /\ reminders[last.id].call_sid # None)
      => reminders[last.id].status = "failed"

\* the reminders placed by the call with this SID are all Sent
SentCall(sid) ==
    /\ by_call_sid(sid) # {}
    /\ \A i \in by_call_sid(sid) : reminders[i].status = "sent"

\* C11: when the callee of a Sent reminder presses 1, the confirmation
\* webhook carrying that digit and the call's SID leaves the reminder
\* Confirmed and answers without an error.
C11_DigitOneConfirms ==
    [][\A sid \in CallSids :
         (SentCall(sid) /\ appointment_confirm("1", sid))
           => /\ last'.result = "200"
              /\ \A i \in by_call_sid(sid) : reminders'[i].status = "confirmed"]_vars

\* C12: when the callee of a Sent reminder presses 2, the confirmation
\* webhook leaves the reminder Rescheduled; no other digit does.
C12_DigitTwoReschedules ==
    [][\A sid \in CallSids, d \in Digits :
         (SentCall(sid) /\ appointment_confirm(d, sid))
           => \A i \in by_call_sid(sid) :
                reminders'[i].status = "rescheduled" <=> d = "2"]_vars

\* C13: a confirmation webhook that carries a digit other than 1 and 2
\* changes no reminder (a gather that times out posts nothing), so the
\* reminder of a call that ends without a response stays Sent.
C13_InvalidDigitChangesNothing ==
    [][\A sid \in CallSids, d \in Digits \ {"1", "2"} :
         appointment_confirm(d, sid)
           => reminders' = reminders /\ req'.pc = "idle"]_vars

\* C13 witness: the confirmation webhook was handled while the reminder of
\* a placed call is Sent
C13_Witness ==
    /\ last.op = "appointment_confirm"
    /\ \E sid \in CallSids : SentCall(sid)

\* C15: once a confirmation outcome has ended the dialog (the reminder is
\* Confirmed or Rescheduled), a further digit event for the call does not
\* change the reminder's status.
C15_TerminalIsSink ==
    (/\ last.op = "handle_appointment_confirmation" /\ last.result = "updated"
     /\ last.pre \in {"confirmed", "rescheduled"})
      => reminders[last.id].status = last.pre

\* C17: a status webhook whose reference matches no reminder does not fail
\* the endpoint and leaves every reminder as it was, whatever the status
\* it carries.
C17_UnknownReferenceIsNoOp ==
    [][\A id \in 1..MaxReminders, s \in CallStatuses :
         (id \notin Ids /\ call_status_callback(id, s))
           => /\ reminders' = reminders
              /\ last'.result = "200"]_vars

\* the reconciler under the route: handle_call_status_callback for a call
\* SID that no reminder carries returns without raising and leaves every
\* reminder as it was, whatever the status
UnknownCallSidIsNoOp ==
    [][\A sid \in CallSids, s \in CallStatuses :
         ((\A i \in Ids : reminders[i].call_sid # sid)
            /\ handle_call_status_callback(sid, s))
           => /\ reminders' = reminders
              /\ last'.result = "not found"
              /\ req'.pc = "idle"]_vars

\* C18: a confirmation webhook whose call SID matches no reminder is not
\* answered with an error.
C18_UnknownCallIsNotAnError ==
    last.op = "appointment_confirm" => last.result # "404"

\* C16: schedule_reminder_call places the call now exactly when the
\* instant appointment - 24h has already passed (is strictly before now),
\* and otherwise places nothing and reports that instant for later.
C16_SchedulingPolicy ==
    \A i \in Ids :
      /\ txn[i].pc \in {"loaded", "placed", "done"}
           => reminders[i].appointment_date - LeadHours < now
      /\ txn[i].pc = "deferred"
           => now <= reminders[i].appointment_date - LeadHours

\* C16 witness: a reminder whose appointment is 2 hours out was called now
C16_Witness ==
    /\ last.op = "_make_reminder_call" /\ last.id \in Ids
    /\ reminders[last.id].appointment_date - now = 2

\* an appointment 48 hours out was deferred
C16_Deferred ==
    /\ last.op = "schedule_reminder_call" /\ last.result = "would schedule"
    /\ reminders[last.id].appointment_date - now = 2 * LeadHours

\* inputs that were neither 1 nor 2
Misses == Cardinality({k \in DOMAIN inputs : inputs[k] \notin {"1", "2"}})

\* the reminder call has a digit Gather yet to run
PromptAhead == \E k \in DOMAIN twiml : twiml[k].verb = "Gather"

\* C14: in the reminder call the confirmation prompt is rendered again
\* after the first input that is neither 1 nor 2 (an unrecognised digit or
\* a timeout), and after two such inputs, in any combination, it is not
\* rendered any more.
C14_PromptRepeatedOnce ==
    /\ (Len(inputs) = 1 /\ Misses = 1 /\ last.op # "voice_webhook") => PromptAhead
    /\ Misses >= 2 => ~PromptAhead

\* C19: once the attempt that placed a call has committed and the status
\* event busy, no-answer or failed of that call has been handled (and no
\* confirmation has been taken), the reminder of the call is Failed, also
\* when the event was handled between the return of make_call and the
\* commit.
C19_FailureEventReflected ==
    (/\ txn.attempt.pc = "done" /\ txn.status.pc = "done"
     /\ txn.confirm.pc = "ready"
     /\ txn.status.status \in DeliveryFailures
     /\ reminders[1].call_sid = txn.status.call_sid)
      => reminders[1].status = "failed"

\* the three requests run one after another, each in one piece
serial_attempt(row) ==
    IF ~(call_time(row) < now) THEN row
    ELSE IF make_reminder_call_error(txn.attempt.gen, txn.attempt.gw) = ""
    THEN [row EXCEPT !.call_sid = txn.attempt.sid, !.status = "sent"]
    ELSE [row EXCEPT !.status = "failed"]

serial_status(row) ==
    IF row.call_sid = txn.status.call_sid
    THEN [row EXCEPT !.status = status_after_callback(@, txn.status.status)]
    ELSE row

serial_confirm(row) ==
    [row EXCEPT !.status = confirmation_status(txn.confirm.confirmed)]

\* the rows the six orders of the three requests leave
SerialOutcomes ==
    { serial_confirm(serial_status(serial_attempt(txn.start))),
      serial_status(serial_confirm(serial_attempt(txn.start))),
      serial_confirm(serial_attempt(serial_status(txn.start))),
      serial_attempt(serial_confirm(serial_status(txn.start))),
      serial_status(serial_attempt(serial_confirm(txn.start))),
      serial_attempt(serial_status(serial_confirm(txn.start))) }

\* C20: when a status event, a confirmation outcome and a call attempt on
\* one reminder have all finished, however their reads and commits were
\* interleaved, the row's status and call SID are those some order of the
\* three, run one after another, would have left.
C20_RequestsSerialize ==
    (txn.attempt.pc = "done" /\ txn.status.pc = "done" /\ txn.confirm.pc = "done")
      => reminders[1] \in SerialOutcomes

\* C20 witness: the confirmation outcome read the row before the attempt
\* committed and wrote after it; the row has the outcome and the call SID
C20_Witness ==
    /\ txn.attempt.pc = "done" /\ txn.status.pc = "done" /\ txn.confirm.pc = "done"
    /\ txn.confirm.loaded.status = "scheduled"
    /\ reminders[1].status = "rescheduled"
    /\ reminders[1].call_sid \in Issued

\* the rows other than reminder id are as they were
OthersUnchanged(id) == \A b \in Ids \ {id} : reminders'[b] = reminders[b]

\* C21: an operation addressed to reminder A (a call attempt, a status
\* webhook, a confirmation outcome) leaves every other reminder as it was,
\* also when A has no call SID at the time of its status webhook.
C21_NoCrossReminderEffects ==
    [][\A id \in Ids :
         /\ schedule_reminder_call(id) => OthersUnchanged(id)
         /\ \A gen \in {"ok", "raise"}, gw \in {"ok", "raise"} :
              place_reminder_call(id, gen, gw) => OthersUnchanged(id)
         /\ commit_reminder_call(id) => OthersUnchanged(id)
         /\ \A s \in CallStatuses :
              (req.pc = "found" /\ req.id = id /\ commit_request(s))
                => OthersUnchanged(id)]_vars

\* C23: when generating the reminder script fails during
\* _make_reminder_call, the call is still placed (with a fallback script)
\* and the reminder does not become Failed.
C23_GenerationFailureFallsBack ==
    (Attempted /\ last.reason = GenerationError)
      => /\ last.result = "placed"
         /\ reminders[last.id].status # "failed"

\* C28: no step sets a reminder's status back to Scheduled: a reminder
\* whose status is not Scheduled is not Scheduled after any step.
C28_NeverBackToScheduled ==
    [][\A i \in Ids :
         reminders[i].status # "scheduled" => reminders'[i].status # "scheduled"]_vars

\* C28 witness: a status event was handled for a reminder that had left
\* Scheduled
C28_Witness ==
    /\ Reconciled /\ last.pre \in AttemptedStatus
    /\ last.status \in {"initiated", "ringing", "answered"}

\* C29: the trigger places a call only for a reminder that is Scheduled
\* when schedule_reminder_call looks it up; for a reminder already Sent,
\* Confirmed, Rescheduled or Failed no call is placed.
C29_OneCallPerReminder ==
    \A i \in DOMAIN txn :
      (txn[i].pc = "placed" /\ txn[i].error = "")
        => txn[i].loaded.status = "scheduled"

\* C30: a status webhook of kind initiated, ringing or answered leaves the
\* reminder it is addressed to as it was, in handle_call_status_callback
\* and through POST /call-status-callback/{reminder_id}.
C30_IntermediateEventsInert ==
    [][\A id \in Ids, s \in {"initiated", "ringing", "answered"} :
         (/\ req.pc = "found"
          /\ req.op \in {"handle_call_status_callback", "call_status_callback"}
          /\ req.id = id
          /\ commit_request(s) /\ last'.status = s)
           => reminders'[id] = reminders[id]]_vars

\* appointment_date strings that name no instant
Unparseable == {d \in DateInputs : d.day > 30 \/ d.hour > 23}

\* C25: create_appointment_reminder with an appointment_date that cannot
\* be parsed raises ValueError and adds no row; the rows already there are
\* as they were.
C25_UnparseableDateRejected ==
    [][\A p \in PhoneInputs, d \in Unparseable, n \in PatientNames, m \in Messages :
         create_appointment_reminder(p, d, n, m)
           => /\ reminders' = reminders
              /\ last'.result = "raise" /\ last'.reason = "ValueError"]_vars

\* C25 witness: a creation was rejected while a row exists
C25_Witness ==
    /\ last.op = "create_appointment_reminder" /\ last.result = "raise"
    /\ reminders # <<>>

\* C26: no row has a phone_number that is no phone number.
C26_PhoneValidated ==
    \A i \in Ids : reminders[i].phone_number # BadPhone

\* C22: when the process stops after the gateway has placed the call and
\* before the commit, the persisted row differs from the row of a reminder
\* no call was ever attempted for (Scheduled, no call SID).
C22_CrashDetectable ==
    (txn.attempt.pc = "crashed" /\ txn.attempt.sid \in Issued)
      => ~(reminders[1].status = "scheduled" /\ reminders[1].call_sid = None)

\* C24: when generation fails inside a webhook of a call (the speech-input
\* webhook or the reminder-script webhook), the gateway gets a document
\* that apologizes and hangs up, never an error.
C24_GenerationFailureApologizes ==
    last.reason = GenerationError
      => /\ last.result = "200"
         /\ \A k \in DOMAIN twiml : twiml[k].verb \in {"Say", "Hangup"}

\* the call has a speech Gather yet to run
GatherAhead == \E k \in DOMAIN twiml : twiml[k].verb = "GatherSpeech"

\* C27: in a general-inquiry call a gather window that elapses ends the
\* call exactly when the window before it elapsed too: one timeout alone
\* leaves a gather to run, two in a row leave none.
C27_TwoTimeoutsEndCall ==
    (/\ last.op = "voice_webhook"
     /\ inputs # <<>> /\ inputs[Len(inputs)] = "timeout")
      => (GatherAhead <=> ~(Len(inputs) >= 2 /\ inputs[Len(inputs) - 1] = "timeout"))

\* C31: schedule_reminder_call that defers (appointment - 24h is not
\* before now) places no call and changes no reminder: the task goes no
\* further, the Scheduled reminder stays Scheduled and without call SID.
\* Likewise schedule_reminder_call for an id no reminder has: no call is
\* placed, no task goes further and no reminder changes.
C31_DeferralChangesNothing ==
    /\ [](\A i \in Ids :
            now <= reminders[i].appointment_date - LeadHours
              => /\ txn[i].pc \in {"queued", "deferred"}
                 /\ reminders[i].status = "scheduled"
                 /\ reminders[i].call_sid = None
                 /\ calls = 0)
    /\ [][\A id \in 1..MaxReminders :
            (id \notin Ids /\ schedule_reminder_call(id))
              => /\ reminders' = reminders
                 /\ calls' = calls
                 /\ txn' = txn
                 /\ last'.result = "not found"]_vars

\* C31 witness: the call of a Scheduled reminder was deferred, then
\* schedule_reminder_call ran for an id no reminder has; the reminder is
\* Scheduled, without call SID, no call placed
C31_Witness ==
    /\ last.op = "schedule_reminder_call" /\ last.result = "not found"
    /\ last.id \notin Ids
    /\ \E i \in Ids :
          /\ txn[i].pc = "deferred"
          /\ reminders[i].status = "scheduled"
          /\ reminders[i].call_sid = None
    /\ calls = 0

TypeOK ==
    /\ Len(reminders) <= MaxReminders
    /\ \A i \in Ids : reminders[i].status \in ReminderStatus
    /\ now \in 0..MaxNow
    /\ calls \in 0..MaxCalls
====
